---- MODULE Spec2Model ----
(***************************************************************************)
(* A model of src/src/bun/rqliteDatabase.ts: the RqliteDatabase adapter    *)
(* and the Statements class (the prepared statement), together with the    *)
(* fetch promises their calls wait on.                                     *)
(*                                                                         *)
(* One action is one synchronous stretch of JavaScript: a public method    *)
(* runs up to its first pending await (everything down to the fetch call   *)
(* in _executeQuery is synchronous), and the settlement of a fetch promise *)
(* runs the continuations of the awaiting async functions to the end.      *)
(***************************************************************************)
EXTENDS Integers, Sequences, FiniteSets, TLC

VARIABLES baseUrl, stmts, calls, out

vars == <<baseUrl, stmts, calls, out>>

(***************************************************************************)
(* Bounds of the model.                                                    *)
(***************************************************************************)
MaxParams == 2
MaxRows == 2

(***************************************************************************)
(* Input domains.                                                          *)
(***************************************************************************)
SeqsUpTo(S, n) == UNION {[1..k -> S] : k \in 0..n}

\* Base URLs handed to the constructor.
BaseUrls == {"http://node1:4001"}

\* SQL texts handed to run/get/query and to the Statements constructor.
SqlTexts == {"SELECT", "INSERT"}

\* JavaScript values used as parameters (params: any[]): the string 'x', the
\* numbers 7 and NaN, and the BigInt 1n.
ParamVals == {"x", "7", "NaN", "1n"}

ParamLists == SeqsUpTo(ParamVals, MaxParams)

\* Failures with which the fetch promise can reject.
NetErrors == {"ECONNREFUSED"}

(***************************************************************************)
(* JSON.stringify({ sql, params })                                         *)
(***************************************************************************)
\* JSON has no NaN (nor undefined, nor Infinity): inside an array
\* JSON.stringify writes null for them.
JsonValue(v) == IF v = "NaN" THEN "null" ELSE v

\* JSON.stringify throws a TypeError on a BigInt.
Serializable(params) == \A i \in 1..Len(params) : params[i] # "1n"

stringify_reversed(sql, params) ==
    [sql |-> sql,
     params |-> [i \in 1..Len(params) |-> JsonValue(params[Len(params) + 1 - i])]]

stringify(sql, params) ==
    [sql |-> sql, params |-> [i \in 1..Len(params) |-> JsonValue(params[i])]]

(***************************************************************************)
(* Responses of the remote service and response.json()                     *)
(***************************************************************************)
\* A row on the wire is a JSON object: its members in the order they are
\* written, each a <<column name, value>> pair.
WireRows ==
    { << <<"id", "1">>, <<"name", "a">> >>,
      << <<"name", "b">>, <<"7", "c">> >> }

RowLists == SeqsUpTo(WireRows, MaxRows)

\* Column names that are canonical array indices, with their numeric value.
IndexValue(k) == IF k = "7" THEN 7 ELSE -1

IsArrayIndex(k) == IndexValue(k) >= 0

\* Insert the member e among the index-keyed members es, ascending.
RECURSIVE InsertIndexKey(_, _)
InsertIndexKey(e, es) ==
    IF es = <<>> THEN <<e>>
    ELSE IF IndexValue(e[1]) < IndexValue(Head(es)[1]) THEN <<e>> \o es
    ELSE <<Head(es)>> \o InsertIndexKey(e, Tail(es))

RECURSIVE SortIndexKeys(_)
SortIndexKeys(es) ==
    IF es = <<>> THEN <<>> ELSE InsertIndexKey(Head(es), SortIndexKeys(Tail(es)))

\* The own properties of the object JSON.parse builds from a JSON object, in
\* the order JavaScript enumerates them: array-index keys first, ascending,
\* then the other keys in the order they were written.
OwnProperties(wire) ==
    SortIndexKeys(SelectSeq(wire, LAMBDA e : IsArrayIndex(e[1])))
        \o SelectSeq(wire, LAMBDA e : ~IsArrayIndex(e[1]))

\* A JSON document of the remote service: the set of members it has, and
\* their values.
Doc(has, rows, changes, lastInsertRowid) ==
    [has |-> has, rows |-> rows, changes |-> changes,
     lastInsertRowid |-> lastInsertRowid]

NoDoc == Doc({}, <<>>, 0, 0)

\* An HTTP response: its status class (ok), whether its body is JSON text,
\* and the document in the body.
Responses ==
    {[ok |-> TRUE, isJson |-> TRUE, doc |-> Doc({"rows"}, rs, 0, 0)] : rs \in RowLists}
    \cup {[ok |-> TRUE, isJson |-> TRUE,
           doc |-> Doc({"changes", "lastInsertRowid"}, <<>>, c, c + 4)] : c \in {0, 1}}
    \cup {[ok |-> FALSE, isJson |-> TRUE, doc |-> Doc({"error"}, <<>>, 0, 0)],
          [ok |-> FALSE, isJson |-> FALSE, doc |-> NoDoc]}

\* response.json(): the document with every row parsed into an object.
ParseDoc(doc) ==
    [doc EXCEPT !.rows = [i \in 1..Len(doc.rows) |-> OwnProperties(doc.rows[i])]]

(***************************************************************************)
(* JavaScript values and promise outcomes                                  *)
(***************************************************************************)
\* A value: its tag says which of the other fields holds it.
\*   "undefined", "null"  no payload
\*   "object"   doc   the parsed response document
\*   "array"    rows  an array of row objects
\*   "row"      row   one row object
\*   "values"   vals  an array of scalars
\*   "string"   str
\*   "this"           the statement the method was called on
Undefined ==
    [tag |-> "undefined", doc |-> NoDoc, rows |-> <<>>, row |-> <<>>,
     vals |-> <<>>, str |-> ""]

Null == [Undefined EXCEPT !.tag = "null"]

ObjectVal(doc) == [Undefined EXCEPT !.tag = "object", !.doc = doc]

ArrayVal(rows) == [Undefined EXCEPT !.tag = "array", !.rows = rows]

RowVal(row) == [Undefined EXCEPT !.tag = "row", !.row = row]

ValuesVal(vals) == [Undefined EXCEPT !.tag = "values", !.vals = vals]

StringVal(str) == [Undefined EXCEPT !.tag = "string", !.str = str]

This == [Undefined EXCEPT !.tag = "this"]

\* How a call ended: a promise "fulfilled" with val or "rejected" with err, a
\* synchronous method that "returned" val or has "thrown" err; "pending"
\* while the promise is not settled.
Fulfilled(val) == [state |-> "fulfilled", val |-> val, err |-> ""]

Rejected(err) == [state |-> "rejected", val |-> Undefined, err |-> err]

Returned(val) == [state |-> "returned", val |-> val, err |-> ""]

Thrown(err) == [state |-> "thrown", val |-> Undefined, err |-> err]

Pending == [state |-> "pending", val |-> Undefined, err |-> ""]

(***************************************************************************)
(* The continuations of the async methods, applied to the outcome of the   *)
(* promise they await.                                                     *)
(***************************************************************************)
\* _executeQuery after its await: return response.json(). The status of the
\* response is not read; a body that is not JSON rejects with a SyntaxError.
executeQueryResult(resp) ==
    IF resp.isJson THEN Fulfilled(ObjectVal(ParseDoc(resp.doc)))
    ELSE Rejected("SyntaxError")

\* run: const result = await this._executeQuery(sql, params); return result
runResult(executed) == executed

\* query: return result.rows
queryResult_dropsLast(executed) ==
    IF executed.state = "rejected" THEN executed
    ELSE IF "rows" \in executed.val.doc.has
         THEN Fulfilled(ArrayVal(SubSeq(executed.val.doc.rows, 1,
                                        Len(executed.val.doc.rows) - 1)))
         ELSE Fulfilled(Undefined)

queryResult(executed) ==
    IF executed.state = "rejected" THEN executed
    ELSE IF "rows" \in executed.val.doc.has
         THEN Fulfilled(ArrayVal(executed.val.doc.rows))
         ELSE Fulfilled(Undefined)

\* get: return rows.length > 0 ? rows[0] : null. Reading .length of
\* undefined throws a TypeError.
getResult(queried) ==
    IF queried.state = "rejected" THEN queried
    ELSE IF queried.val.tag = "undefined" THEN Rejected("TypeError")
    ELSE IF Len(queried.val.rows) > 0 THEN Fulfilled(RowVal(queried.val.rows[1]))
    ELSE Fulfilled(Null)

\* Object.values(row)[0]
FirstValue(row) == IF Len(row) = 0 THEN "undefined" ELSE row[1][2]

\* values: return rows.map(row => Object.values(row)[0]). Calling .map of
\* undefined throws a TypeError.
valuesResult(rows) ==
    IF rows.state = "rejected" THEN rows
    ELSE IF rows.val.tag = "undefined" THEN Rejected("TypeError")
    ELSE Fulfilled(ValuesVal([i \in 1..Len(rows.val.rows) |->
                                  FirstValue(rows.val.rows[i])]))

\* The kinds of call, by the public method that started them.
DbKinds == {"run", "get", "query"}

StmtKinds == {"Statements.all", "Statements.get", "Statements.run",
              "Statements.values"}

\* The outcome of a call of the given kind once its _executeQuery has the
\* outcome `executed`: the awaiting functions resume from the innermost out.
Continue(kind, executed) ==
    CASE kind \in {"run", "Statements.run"} -> runResult(executed)
      [] kind \in {"query", "Statements.all"} -> queryResult(executed)
      [] kind \in {"get", "Statements.get"} -> getResult(queryResult(executed))
      [] kind = "Statements.values" -> valuesResult(queryResult(executed))

(***************************************************************************)
(* State                                                                   *)
(***************************************************************************)
\* The Statements objects of the client: two, so that calls on different
\* statements can overlap.
StmtIds == {1, 2}

\* The promises of the calls that can be waiting at once.
CallIds == {1, 2}

\* A Statements object: private db (the one adapter), sql and params.
\* made is FALSE until the constructor has run for it.
NoStatement == [made |-> FALSE, sql |-> "", params |-> <<>>]

\* The request handed to fetch.
Request(url, body) ==
    [url |-> url, method |-> "POST", contentType |-> "application/json",
     body |-> body]

NoRequest == Request("", [sql |-> "", params |-> <<>>])

\* One call of an execution method: the method, the statement it was called
\* on (0 for a method of the adapter), the sql and params it passed down to
\* _executeQuery, how many times it has called fetch, and the request it
\* handed to fetch.
IdleCall ==
    [status |-> "idle", kind |-> "", stmt |-> 0, sql |-> "", params |-> <<>>,
     fetches |-> 0, req |-> NoRequest]

NoResponse == [ok |-> FALSE, isJson |-> FALSE, doc |-> NoDoc]

\* What the latest step did and handed to its caller: the method called (or
\* "settle" when a fetch promise settled), the statement and call concerned
\* (for a method that starts no call, call holds its arguments), the response
\* or network failure that settled it, and the result.
NoOut ==
    [op |-> "none", stmt |-> 0, slot |-> 0, call |-> IdleCall,
     via |-> "", resp |-> NoResponse, netErr |-> "", result |-> Pending]

TypeOK ==
    /\ baseUrl \in BaseUrls
    /\ \A s \in StmtIds :
          /\ stmts[s].made \in BOOLEAN
          /\ stmts[s].sql \in SqlTexts \cup {""}
          /\ stmts[s].params \in ParamLists
    /\ \A c \in CallIds : calls[c].status \in {"idle", "pending"}

\* new RqliteDatabase(baseUrl); no statement exists and no call is running.
Init ==
    /\ baseUrl \in BaseUrls
    /\ stmts = [s \in StmtIds |-> NoStatement]
    /\ calls = [c \in CallIds |-> IdleCall]
    /\ out = NoOut

(***************************************************************************)
(* RqliteDatabase                                                          *)
(***************************************************************************)
\* fetch(url, {method, headers, body}): one request goes out, and the call
\* waits for the promise.
fetch_retried(call, url, body) ==
    [call EXCEPT !.status = "pending", !.fetches = @ + 2,
                 !.req = Request(url, body)]

fetch(call, url, body) ==
    [call EXCEPT !.status = "pending", !.fetches = @ + 1,
                 !.req = Request(url, body)]

\* The slot c is the first free one.
FirstIdle(c) ==
    /\ calls[c].status = "idle"
    /\ \A d \in CallIds : d < c => calls[d].status = "pending"

\* _executeQuery(sql, params) up to its await, on behalf of a call of the
\* given kind on statement s (0: on the adapter). The argument of fetch is
\* evaluated first: JSON.stringify throws on a parameter it cannot encode,
\* and then fetch is not called and the call's promise is rejected at once
\* (no promise stays waiting then, so the step is taken for c = 1 alone).
executeQuery(c, kind, s, sql, params) ==
    LET call == [IdleCall EXCEPT !.kind = kind, !.stmt = s, !.sql = sql,
                                 !.params = params]
    IN  IF Serializable(params)
        THEN /\ FirstIdle(c)
             /\ calls' = [calls EXCEPT ![c] =
                    fetch(call, baseUrl \o "/db/execute", stringify(sql, params))]
             /\ out' = [NoOut EXCEPT !.op = kind, !.stmt = s, !.slot = c,
                                     !.call = calls'[c]]
             /\ UNCHANGED <<baseUrl, stmts>>
        ELSE /\ c = 1
             /\ out' = [NoOut EXCEPT !.op = kind, !.stmt = s, !.call = call,
                                     !.result = Rejected("TypeError")]
             /\ UNCHANGED <<baseUrl, stmts, calls>>

\* run(sql, params = []); an omitted params is the empty list of ParamLists.
run(c, sql, params) == executeQuery(c, "run", 0, sql, params)

\* get(sql, params = []): calls query
get(c, sql, params) == executeQuery(c, "get", 0, sql, params)

\* query(sql, params = [])
query(c, sql, params) == executeQuery(c, "query", 0, sql, params)

\* prepare(sql): return new Statement(this, sql). The file defines no
\* Statement (the class is named Statements), so evaluating the name throws
\* a ReferenceError and no object is made.
prepare(sql) ==
    /\ out' = [NoOut EXCEPT !.op = "prepare", !.call.sql = sql,
                            !.result = Thrown("ReferenceError")]
    /\ UNCHANGED <<baseUrl, stmts, calls>>

(***************************************************************************)
(* Statements                                                              *)
(***************************************************************************)
\* new Statements(db, sql), the exported class called directly.
NewStatements(s, sql) ==
    /\ ~stmts[s].made
    /\ \A t \in StmtIds : t < s => stmts[t].made
    /\ stmts' = [stmts EXCEPT ![s] = [made |-> TRUE, sql |-> sql, params |-> <<>>]]
    /\ out' = [NoOut EXCEPT !.op = "new Statements", !.stmt = s, !.call.sql = sql,
                            !.result = Returned(This)]
    /\ UNCHANGED <<baseUrl, calls>>

\* bind(...params): this.params = params; return this
bind_rewritesPending(s, params) ==
    /\ stmts[s].made
    /\ stmts' = [stmts EXCEPT ![s].params = params]
    /\ calls' = [c \in CallIds |->
                    IF calls[c].status = "pending" /\ calls[c].stmt = s
                    THEN [calls[c] EXCEPT !.req.body.params = params]
                    ELSE calls[c]]
    /\ out' = [NoOut EXCEPT !.op = "bind", !.stmt = s, !.call.params = params,
                            !.result = Returned(This)]
    /\ UNCHANGED baseUrl

bind_appends(s, params) ==
    /\ stmts[s].made
    /\ stmts' = [stmts EXCEPT ![s].params =
                    IF Len(@) + Len(params) <= MaxParams THEN @ \o params ELSE params]
    /\ out' = [NoOut EXCEPT !.op = "bind", !.stmt = s, !.call.params = params,
                            !.result = Returned(This)]
    /\ UNCHANGED <<baseUrl, calls>>

bind(s, params) ==
    /\ stmts[s].made
    /\ stmts' = [stmts EXCEPT ![s].params = params]
    /\ out' = [NoOut EXCEPT !.op = "bind", !.stmt = s, !.call.params = params,
                            !.result = Returned(This)]
    /\ UNCHANGED <<baseUrl, calls>>

\* all(): return await this.db.query(this.sql, this.params)
Statements_all(c, s) ==
    /\ stmts[s].made
    /\ executeQuery(c, "Statements.all", s, stmts[s].sql, stmts[s].params)

\* get(): return await this.db.get(this.sql, this.params)
Statements_get(c, s) ==
    /\ stmts[s].made
    /\ executeQuery(c, "Statements.get", s, stmts[s].sql, stmts[s].params)

\* run(): return await this.db.run(this.sql, this.params)
Statements_run(c, s) ==
    /\ stmts[s].made
    /\ executeQuery(c, "Statements.run", s, stmts[s].sql, stmts[s].params)

\* values(): const rows = await this.all(); ...
Statements_values(c, s) ==
    /\ stmts[s].made
    /\ executeQuery(c, "Statements.values", s, stmts[s].sql, stmts[s].params)

\* finalize(): this.sql = ''; this.params = []; return this
finalize_keepsParams(s) ==
    /\ stmts[s].made
    /\ stmts' = [stmts EXCEPT ![s].sql = ""]
    /\ out' = [NoOut EXCEPT !.op = "finalize", !.stmt = s, !.result = Returned(This)]
    /\ UNCHANGED <<baseUrl, calls>>

finalize(s) ==
    /\ stmts[s].made
    /\ stmts' = [stmts EXCEPT ![s].sql = "", ![s].params = <<>>]
    /\ out' = [NoOut EXCEPT !.op = "finalize", !.stmt = s, !.result = Returned(This)]
    /\ UNCHANGED <<baseUrl, calls>>

\* toString(): return this.sql
toString(s) ==
    /\ stmts[s].made
    /\ out' = [NoOut EXCEPT !.op = "toString", !.stmt = s,
                            !.result = Returned(StringVal(stmts[s].sql))]
    /\ UNCHANGED <<baseUrl, stmts, calls>>

(***************************************************************************)
(* The fetch promise of a call settles.                                    *)
(***************************************************************************)
\* The response to the request of call c arrives: _executeQuery resumes,
\* returns response.json(), and the functions awaiting it run to their end.
FetchResolve(c, resp) ==
    /\ calls[c].status = "pending"
    /\ calls' = [calls EXCEPT ![c] = IdleCall]
    /\ out' = [NoOut EXCEPT !.op = "settle", !.stmt = calls[c].stmt, !.slot = c,
                            !.call = calls[c], !.via = "response", !.resp = resp,
                            !.result = Continue(calls[c].kind, executeQueryResult(resp))]
    /\ UNCHANGED <<baseUrl, stmts>>

FetchReject_wrapped(c, e) ==
    /\ calls[c].status = "pending"
    /\ calls' = [calls EXCEPT ![c] = IdleCall]
    /\ out' = [NoOut EXCEPT !.op = "settle", !.stmt = calls[c].stmt, !.slot = c,
                            !.call = calls[c], !.via = "failure", !.netErr = e,
                            !.result = Continue(calls[c].kind, Rejected("Error"))]
    /\ UNCHANGED <<baseUrl, stmts>>

\* The network call of call c fails: the await in _executeQuery throws the
\* failure, and every awaiting function rethrows it.
FetchReject(c, e) ==
    /\ calls[c].status = "pending"
    /\ calls' = [calls EXCEPT ![c] = IdleCall]
    /\ out' = [NoOut EXCEPT !.op = "settle", !.stmt = calls[c].stmt, !.slot = c,
                            !.call = calls[c], !.via = "failure", !.netErr = e,
                            !.result = Continue(calls[c].kind, Rejected(e))]
    /\ UNCHANGED <<baseUrl, stmts>>

(***************************************************************************)
(* Specifications                                                          *)
(***************************************************************************)
\* No call is waiting for its response.
Quiet == \A c \in CallIds : calls[c].status = "idle"

\* A client that uses one statement and awaits every call before its next
\* operation, with every parameter list and every response.
Next ==
    \/ \E sql \in SqlTexts : Quiet /\ NewStatements(1, sql)
    \/ \E p \in ParamLists : Quiet /\ bind(1, p)
    \/ Statements_all(1, 1)
    \/ Statements_get(1, 1)
    \/ Statements_run(1, 1)
    \/ Statements_values(1, 1)
    \/ Quiet /\ finalize(1)
    \/ Quiet /\ toString(1)
    \/ \E resp \in Responses : FetchResolve(1, resp)
    \/ \E e \in NetErrors : FetchReject(1, e)

Spec == Init /\ [][Next]_vars

\* A client that uses the adapter alone and awaits every call, with every
\* SQL text, parameter list and response.
NextDb ==
    \/ \E sql \in SqlTexts, p \in ParamLists : run(1, sql, p)
    \/ \E sql \in SqlTexts, p \in ParamLists : get(1, sql, p)
    \/ \E sql \in SqlTexts, p \in ParamLists : query(1, sql, p)
    \/ \E sql \in SqlTexts : Quiet /\ prepare(sql)
    \/ \E resp \in Responses : FetchResolve(1, resp)
    \/ \E e \in NetErrors : FetchReject(1, e)

SpecDb == Init /\ [][NextDb]_vars

\* Parameter lists and responses of the concurrent client.
ConcParamLists == {<<"x">>, <<"1n">>}

\* The SQL text the concurrent client gives to each statement.
ConcSql(s) == IF s = 1 THEN "SELECT" ELSE "INSERT"

ConcResponses ==
    {[ok |-> TRUE, isJson |-> TRUE, doc |-> Doc({"rows"}, rs, 0, 0)] :
        rs \in SeqsUpTo(WireRows, 1)}

\* A client that uses two statements and does not await: calls overlap, and
\* bind and finalize run while calls are waiting for their responses.
NextConc ==
    \/ \E s \in StmtIds : NewStatements(s, ConcSql(s))
    \/ \E s \in StmtIds, p \in ConcParamLists : bind(s, p)
    \/ \E c \in CallIds, s \in StmtIds : Statements_all(c, s)
    \/ \E c \in CallIds, s \in StmtIds : Statements_get(c, s)
    \/ \E c \in CallIds, s \in StmtIds : Statements_run(c, s)
    \/ \E c \in CallIds, s \in StmtIds : Statements_values(c, s)
    \/ \E s \in StmtIds : finalize(s)
    \/ \E c \in CallIds, resp \in ConcResponses : FetchResolve(c, resp)
    \/ \E c \in CallIds, e \in NetErrors : FetchReject(c, e)

SpecConc == Init /\ [][NextConc]_vars

(***************************************************************************)
(* Claims                                                                  *)
(***************************************************************************)

\* C1, as stated: for every SQL text s and parameter list p, run(s, p) sends
\* a request whose body carries exactly s and exactly p (same elements, same
\* order), and resolves to the change count and last-inserted identifier of
\* the response, unchanged.
C1_RunForwardsExactly ==
    /\ out.op = "run" =>
          /\ out.result.state = "pending"
          /\ out.call.fetches = 1
          /\ out.call.req.body.sql = out.call.sql
          /\ out.call.req.body.params = out.call.params
    /\ ( /\ out.op = "settle" /\ out.call.kind = "run" /\ out.via = "response"
         /\ {"changes", "lastInsertRowid"} \subseteq out.resp.doc.has )
       => /\ out.result.state = "fulfilled"
          /\ out.result.val.tag = "object"
          /\ out.result.val.doc.changes = out.resp.doc.changes
          /\ out.result.val.doc.lastInsertRowid = out.resp.doc.lastInsertRowid

\* C1, amended: for every SQL text s and every parameter list p without a
\* BigInt, run(s, p) sends one POST request to baseUrl/db/execute whose body
\* carries exactly s and the elements of p in order, NaN written as null and
\* every other element unchanged; with a BigInt in p no request is sent and
\* the call is rejected with a TypeError. A call answered with a change count
\* and last-inserted identifier resolves to them unchanged.
C1_RunForwardsEncoded ==
    /\ out.op = "run" =>
          IF \E i \in 1..Len(out.call.params) : out.call.params[i] = "1n"
          THEN /\ out.result.state = "rejected"
               /\ out.result.err = "TypeError"
               /\ out.call.fetches = 0
          ELSE /\ out.result.state = "pending"
               /\ out.call.fetches = 1
               /\ out.call.req.url = baseUrl \o "/db/execute"
               /\ out.call.req.method = "POST"
               /\ out.call.req.body.sql = out.call.sql
               /\ Len(out.call.req.body.params) = Len(out.call.params)
               /\ \A i \in 1..Len(out.call.params) :
                     out.call.req.body.params[i] =
                        IF out.call.params[i] = "NaN" THEN "null"
                        ELSE out.call.params[i]
    /\ ( /\ out.op = "settle" /\ out.call.kind = "run" /\ out.via = "response"
         /\ {"changes", "lastInsertRowid"} \subseteq out.resp.doc.has )
       => /\ out.result.state = "fulfilled"
          /\ out.result.val.tag = "object"
          /\ out.result.val.doc.has = out.resp.doc.has
          /\ out.result.val.doc.changes = out.resp.doc.changes
          /\ out.result.val.doc.lastInsertRowid = out.resp.doc.lastInsertRowid

\* A run with two different encodable parameters has been answered with a
\* change count and an identifier.
C1_Witness ==
    /\ out.op = "settle" /\ out.call.kind = "run" /\ out.via = "response"
    /\ out.call.params = <<"x", "7">>
    /\ out.call.req.body.params = <<"x", "7">>
    /\ "changes" \in out.resp.doc.has
    /\ out.result.val.doc.changes = 1
    /\ out.result.val.doc.lastInsertRowid = 5

\* C2, as stated: a row fetch (get, Statements.get) resolves to null whenever
\* the response contains no rows, and otherwise to the first row of the
\* response; it never fails because the response has no rows.
C2_GetNullOrFirstRow ==
    ( /\ out.op = "settle" /\ out.call.kind \in {"get", "Statements.get"}
      /\ out.via = "response" /\ out.resp.ok /\ out.resp.isJson )
    => IF "rows" \in out.resp.doc.has /\ Len(out.resp.doc.rows) > 0
       THEN /\ out.result.state = "fulfilled"
            /\ out.result.val.tag = "row"
            /\ {out.result.val.row[j] : j \in 1..Len(out.result.val.row)}
                  = {out.resp.doc.rows[1][j] : j \in 1..Len(out.resp.doc.rows[1])}
       ELSE /\ out.result.state = "fulfilled"
            /\ out.result.val.tag = "null"

\* C3: a multi-row fetch (query, Statements.all) answered with a row sequence
\* resolves to a sequence of the same length whose row i has the columns and
\* values of row i of the response.
C3_QueryPreservesRows ==
    ( /\ out.op = "settle" /\ out.call.kind \in {"query", "Statements.all"}
      /\ out.via = "response" /\ out.resp.isJson /\ "rows" \in out.resp.doc.has )
    => /\ out.result.state = "fulfilled"
       /\ out.result.val.tag = "array"
       /\ Len(out.result.val.rows) = Len(out.resp.doc.rows)
       /\ \A i \in 1..Len(out.resp.doc.rows) :
             {out.result.val.rows[i][j] : j \in 1..Len(out.result.val.rows[i])}
                = {out.resp.doc.rows[i][j] : j \in 1..Len(out.resp.doc.rows[i])}

\* A multi-row fetch has been answered with two different rows.
C3_Witness ==
    /\ out.op = "settle" /\ out.call.kind = "Statements.all"
    /\ out.via = "response" /\ "rows" \in out.resp.doc.has
    /\ Len(out.resp.doc.rows) = 2
    /\ out.resp.doc.rows[1] # out.resp.doc.rows[2]
    /\ Len(out.result.val.rows) = 2

\* C4, as stated: after bind(p) every execution of the statement (all, get,
\* run, values) sends exactly the parameter list p and the statement's SQL
\* text until the next bind or finalize, and a later bind(q) replaces the
\* list completely.
C4_BoundParamsSentExactly ==
    [][ /\ out'.op = "bind" =>
              /\ stmts'[out'.stmt].params = out'.call.params
              /\ stmts'[out'.stmt].sql = stmts[out'.stmt].sql
        /\ out'.op \in StmtKinds \cup {"settle", "toString"} => stmts' = stmts
        /\ out'.op \in StmtKinds =>
              /\ out'.call.fetches = 1
              /\ out'.call.req.body.sql = stmts[out'.stmt].sql
              /\ out'.call.req.body.params = stmts[out'.stmt].params
      ]_vars

\* C4, amended: bind(p) sets the statement's parameter list to exactly p and
\* leaves its SQL text; executions and settlements leave both; and every
\* execution passes the statement's SQL text and list on, so that until the
\* next bind or finalize it sends the SQL text and the elements of p in
\* order, NaN written as null, or, when p holds a BigInt, sends nothing and is
\* rejected with a TypeError.
C4_BoundParamsReused ==
    [][ /\ out'.op = "bind" =>
              /\ stmts'[out'.stmt].params = out'.call.params
              /\ stmts'[out'.stmt].sql = stmts[out'.stmt].sql
        /\ out'.op \in StmtKinds \cup {"settle", "toString"} => stmts' = stmts
        /\ out'.op \in StmtKinds =>
              LET st == stmts[out'.stmt]
              IN  /\ out'.call.sql = st.sql
                  /\ out'.call.params = st.params
                  /\ IF \E i \in 1..Len(st.params) : st.params[i] = "1n"
                     THEN /\ out'.call.fetches = 0
                          /\ out'.result.state = "rejected"
                          /\ out'.result.err = "TypeError"
                     ELSE /\ out'.call.fetches = 1
                          /\ out'.call.req.body.sql = st.sql
                          /\ Len(out'.call.req.body.params) = Len(st.params)
                          /\ \A i \in 1..Len(st.params) :
                                out'.call.req.body.params[i] =
                                   IF st.params[i] = "NaN" THEN "null"
                                   ELSE st.params[i]
      ]_vars

\* An execution has sent the two parameters the statement is bound to.
C4_Witness ==
    /\ out.op \in StmtKinds
    /\ out.call.fetches = 1
    /\ stmts[out.stmt].params = <<"7", "x">>
    /\ out.call.req.body.params = <<"7", "x">>
    /\ out.call.req.body.sql = stmts[out.stmt].sql

\* C5: finalize() leaves the statement with the empty SQL text and the empty
\* parameter list, whatever it held; toString() returns the SQL text, so the
\* empty string after finalize; and the SQL text stays empty, and the cleared
\* statement stays as it is until the next bind.
C5_FinalizeClears ==
    [][ \A s \in StmtIds :
          /\ (out'.op = "finalize" /\ out'.stmt = s) =>
                /\ stmts'[s].sql = ""
                /\ stmts'[s].params = <<>>
          /\ (stmts[s].made /\ stmts[s].sql = "") => stmts'[s].sql = ""
          /\ ( /\ stmts[s].made /\ stmts[s].sql = "" /\ stmts[s].params = <<>>
               /\ ~(out'.op = "bind" /\ out'.stmt = s) )
             => stmts'[s] = stmts[s]
          /\ (out'.op = "toString" /\ out'.stmt = s) =>
                /\ out'.result.state = "returned"
                /\ out'.result.val.tag = "string"
                /\ out'.result.val.str = stmts[s].sql
      ]_vars

\* toString() has returned the empty string for a finalized statement.
C5_Witness ==
    /\ out.op = "toString"
    /\ stmts[out.stmt].made
    /\ stmts[out.stmt].sql = ""
    /\ stmts[out.stmt].params = <<>>
    /\ out.result.val.str = ""

\* C6, as stated: prepare(sql) completes without error and returns a
\* statement holding exactly sql and an empty parameter list; preparing and
\* binding send no request.
C6_PrepareReturnsStatement ==
    /\ out.op = "prepare" =>
          /\ out.result.state = "returned"
          /\ \E s \in StmtIds :
                stmts[s] = [made |-> TRUE, sql |-> out.call.sql, params |-> <<>>]
    /\ out.op \in {"prepare", "bind"} => out.call.fetches = 0

\* C7, as stated: every execution call issues exactly one request and
\* completes after that request's single response; none sends zero requests
\* or two, and no request is shared with another call.
C7_ExactlyOneRequest ==
    /\ \A c \in CallIds : calls[c].status = "pending" => calls[c].fetches = 1
    /\ out.op \in DbKinds \cup StmtKinds => out.call.fetches = 1
    /\ out.op = "settle" => out.call.fetches = 1

\* C7, amended: an execution call whose parameter list has no BigInt issues
\* exactly one request, its own, and completes when that request's promise
\* settles; a call whose list has a BigInt issues none and is rejected at
\* once. No call issues two.
C7_AtMostOneRequest ==
    /\ \A c \in CallIds : calls[c].status = "pending" =>
          /\ calls[c].fetches = 1
          /\ calls[c].req.body.sql = calls[c].sql
          /\ Len(calls[c].req.body.params) = Len(calls[c].params)
    /\ out.op \in DbKinds \cup StmtKinds =>
          IF \E i \in 1..Len(out.call.params) : out.call.params[i] = "1n"
          THEN /\ out.call.fetches = 0
               /\ out.result.state = "rejected"
               /\ out.slot = 0
          ELSE /\ out.call.fetches = 1
               /\ out.result.state = "pending"
               /\ calls[out.slot] = out.call
    /\ out.op = "settle" =>
          /\ out.call.fetches = 1
          /\ out.via \in {"response", "failure"}
          /\ out.result.state \in {"fulfilled", "rejected"}
          /\ calls[out.slot].status = "idle"

\* Two calls are waiting, each for the response to its own request.
C7_Witness ==
    /\ calls[1].status = "pending" /\ calls[2].status = "pending"
    /\ calls[1].fetches = 1 /\ calls[2].fetches = 1
    /\ calls[1].req # calls[2].req

\* C8, as stated: when the network call fails or the remote service answers
\* with a non-success response, the call ends in an error carrying the
\* original failure, without a retry, and the adapter's base URL and the
\* statement's SQL text and parameters are unchanged.
C8_FailuresPropagate ==
    [][ ( /\ out'.op = "settle"
          /\ (out'.via = "failure" \/ (out'.via = "response" /\ ~out'.resp.ok)) )
        => /\ out'.result.state = "rejected"
           /\ out'.via = "failure" => out'.result.err = out'.netErr
           /\ out'.call.fetches = 1
           /\ calls'[out'.slot].status = "idle"
           /\ baseUrl' = baseUrl
           /\ stmts' = stmts
      ]_vars

\* C8, amended: when the network call fails, the call is rejected with that
\* failure itself. The status of a response is not read: a response whose body
\* is not JSON rejects the call with the parser's SyntaxError, and a
\* non-success response with a JSON body is handled like a success: run
\* resolves to the document, and a document without rows makes all resolve to
\* undefined and get and values fail with a TypeError. In every case there is
\* no retry, and the base URL and the statement's SQL text and parameters are
\* unchanged.
C8_NetworkFailuresPropagate ==
    [][ out'.op = "settle" =>
          /\ out'.call.fetches = 1
          /\ calls'[out'.slot].status = "idle"
          /\ baseUrl' = baseUrl
          /\ stmts' = stmts
          /\ out'.via = "failure" =>
                /\ out'.result.state = "rejected"
                /\ out'.result.err = out'.netErr
          /\ (out'.via = "response" /\ ~out'.resp.isJson) =>
                /\ out'.result.state = "rejected"
                /\ out'.result.err = "SyntaxError"
          /\ (out'.via = "response" /\ out'.resp.isJson /\ ~out'.resp.ok) =>
                CASE out'.call.kind \in {"run", "Statements.run"} ->
                        /\ out'.result.state = "fulfilled"
                        /\ out'.result.val.tag = "object"
                        /\ out'.result.val.doc.has = out'.resp.doc.has
                  [] out'.call.kind \in {"query", "Statements.all"} ->
                        /\ out'.result.state = "fulfilled"
                        /\ out'.result.val.tag =
                              IF "rows" \in out'.resp.doc.has THEN "array"
                              ELSE "undefined"
                  [] OTHER ->
                        "rows" \notin out'.resp.doc.has =>
                            /\ out'.result.state = "rejected"
                            /\ out'.result.err = "TypeError"
      ]_vars

\* A statement's call has been rejected with the failure of its network call.
C8_Witness ==
    /\ out.op = "settle" /\ out.via = "failure"
    /\ out.call.kind = "Statements.get"
    /\ out.result.state = "rejected"
    /\ out.result.err = "ECONNREFUSED"
    /\ stmts[out.stmt].params = out.call.params
    /\ Len(out.call.params) = 2

\* C9, as stated: values() resolves to one entry per row of the response, in
\* response order, entry i being the value of the first column of row i; the
\* empty sequence for a response with no rows.
C9_ValuesFirstColumn ==
    ( /\ out.op = "settle" /\ out.call.kind = "Statements.values"
      /\ out.via = "response" /\ out.resp.isJson /\ "rows" \in out.resp.doc.has )
    => /\ out.result.state = "fulfilled"
       /\ out.result.val.tag = "values"
       /\ Len(out.result.val.vals) = Len(out.resp.doc.rows)
       /\ \A i \in 1..Len(out.resp.doc.rows) :
             out.result.val.vals[i] = out.resp.doc.rows[i][1][2]

\* C10: the request of a statement execution carries the SQL text and the
\* parameter list the statement holds when the execution is called; bind,
\* finalize and the constructor change no call that is waiting; and a
\* settlement completes the call it belongs to, with that call's request as
\* it was sent and a result drawn from its own response, and leaves every
\* other call waiting as it was.
C10_InFlightUnaffected ==
    [][ /\ (out'.op \in StmtKinds /\ out'.result.state = "pending") =>
              LET st == stmts[out'.stmt]
                  c == out'.slot
              IN  /\ calls[c].status = "idle"
                  /\ calls'[c].status = "pending"
                  /\ calls'[c].stmt = out'.stmt
                  /\ calls'[c].req.body.sql = st.sql
                  /\ Len(calls'[c].req.body.params) = Len(st.params)
                  /\ \A i \in 1..Len(st.params) :
                        calls'[c].req.body.params[i] =
                           IF st.params[i] = "NaN" THEN "null" ELSE st.params[i]
                  /\ \A d \in CallIds \ {c} : calls'[d] = calls[d]
        /\ out'.op \in {"bind", "finalize", "new Statements"} => calls' = calls
        /\ out'.op = "settle" =>
              LET c == out'.slot
              IN  /\ calls[c].status = "pending"
                  /\ out'.call = calls[c]
                  /\ out'.stmt = calls[c].stmt
                  /\ \A d \in CallIds \ {c} : calls'[d] = calls[d]
                  /\ out'.via = "failure" => out'.result.err = out'.netErr
                  /\ out'.via = "response" =>
                        CASE calls[c].kind = "Statements.run" ->
                                Len(out'.result.val.doc.rows) = Len(out'.resp.doc.rows)
                          [] calls[c].kind = "Statements.all" ->
                                Len(out'.result.val.rows) = Len(out'.resp.doc.rows)
                          [] calls[c].kind = "Statements.get" ->
                                out'.result.val.tag =
                                   IF Len(out'.resp.doc.rows) > 0 THEN "row" ELSE "null"
                          [] OTHER ->
                                Len(out'.result.val.vals) = Len(out'.resp.doc.rows)
      ]_vars

\* A call has completed with the request it sent although its statement was
\* bound to another list meanwhile, while a call on the other statement is
\* still waiting.
C10_Witness ==
    /\ out.op = "settle" /\ out.via = "response"
    /\ out.call.stmt = 1
    /\ out.call.req.body.params = <<>>
    /\ stmts[1].params = <<"x">>
    /\ out.call.req.body.sql = "SELECT"
    /\ \E d \in CallIds : calls[d].status = "pending" /\ calls[d].stmt = 2
====
